---- MODULE Spec2Model ----
(***************************************************************************)
(* A model of sample_annotator/clients/gold_client.py: the memoized,       *)
(* retrying HTTP fetcher (_fetch_url), the GoldClient methods that stitch  *)
(* studies, biosamples and projects together, the batch orchestrator, the  *)
(* NMDC transformer and the fetch-studies command.                         *)
(*                                                                         *)
(* Python strings are sequences of tokens; identifiers are spelled one     *)
(* character per token so that prefix tests and str.replace act on them    *)
(* as they do in Python.  Python calls are frames on a stack: a call       *)
(* pushes a frame, a return pops it and leaves the value in ret, and an    *)
(* exception unwinds the whole stack (no handler in the file encloses a    *)
(* call).                                                                  *)
(***************************************************************************)
EXTENDS Integers, Sequences, FiniteSets, TLC

VARIABLES
    cache,      \* the diskcache Cache("cachedir"): memoize key -> stored payload
    gold_key,   \* GoldClient.gold_key: <<>> for None, else <<user, passwd>>
    num_calls,  \* GoldClient.num_calls
    stack,      \* the Python call stack, top frame first
    ret,        \* the value returned by the call that returned last
    status,     \* of the top-level operation: idle, running, returned, raised
    exc,        \* the exception that ended the top-level operation
    op,         \* the top-level operation and its arguments
    net,        \* the upstream: the status codes and payloads it may answer
    lastFetch,  \* observation of the last run of the body of _fetch_url
    lastMemo,   \* observation of the last call of the memoized _fetch_url
    served,     \* request tuple -> payload first returned since the last clear
    run,        \* observation of the current top-level operation
    out,        \* the files and streams written by the command
    ops         \* number of top-level operations started

vars == <<cache, gold_key, num_calls, stack, ret, status, exc, op, net,
          lastFetch, lastMemo, served, run, out, ops>>

(***************************************************************************)
(* Bounds of the model.                                                    *)
(***************************************************************************)
MaxOps == 2         \* top-level operations in one behaviour
MaxFetches == 3     \* direct calls of GoldClient._call in one behaviour

(***************************************************************************)
(* Strings.                                                                *)
(***************************************************************************)
NoneVal == <<"<None>">>

GOLD_PREFIX == <<"g", "o", "l", "d", ":">>
Gb1 == <<"G", "b", "1">>
Gb2 == <<"G", "b", "2">>
Gb3 == <<"G", "b", "3">>
Gs1 == <<"G", "s", "1">>
Gs2 == <<"G", "s", "2">>
Gp1 == <<"G", "p", "1">>
Gp2 == <<"G", "p", "2">>

StartsWith(s, p) ==
    /\ Len(s) >= Len(p)
    /\ SubSeq(s, 1, Len(p)) = p

RECURSIVE Replace(_, _, _)
\* str.replace(old, new): every non-overlapping occurrence, left to right
Replace(s, old, new) ==
    IF s = <<>> THEN <<>>
    ELSE IF StartsWith(s, old)
         THEN new \o Replace(SubSeq(s, Len(old) + 1, Len(s)), old, new)
         ELSE <<Head(s)>> \o Replace(Tail(s), old, new)

RECURSIVE Pow(_, _)
Pow(b, e) == IF e = 0 THEN 1 ELSE b * Pow(b, e - 1)

SeqsUpTo(S, n) == UNION {[1..k -> S] : k \in 0..n}

Range(s) == {s[i] : i \in 1..Len(s)}

(***************************************************************************)
(* GoldClient helpers.                                                     *)
(***************************************************************************)
URL == <<"https://gold.jgi.doe.gov/rest/nmdc">>

MaxAttempts == 4
BackoffBase == 5

_normalize_id(id) == Replace(id, GOLD_PREFIX, <<>>)

EndpointUrl(endpoint) == URL \o <<"/">> \o <<endpoint>>

Params(name, value) == <<name, value>>

(***************************************************************************)
(* Frames, calls, returns and exceptions.                                  *)
(***************************************************************************)
Frame(fn, pc, v) == [fn |-> fn, pc |-> pc, v |-> v]

Running == stack # <<>>
Top == Head(stack)
At(fn, pc) == Running /\ Top.fn = fn /\ Top.pc = pc

\* the top frame moves to pc with locals v and calls callee
Call(callee, pc, v) ==
    /\ stack' = <<callee, Frame(Top.fn, pc, v)>> \o Tail(stack)
    /\ UNCHANGED <<ret, status, exc>>

Goto(pc, v) ==
    /\ stack' = <<Frame(Top.fn, pc, v)>> \o Tail(stack)
    /\ UNCHANGED <<ret, status, exc>>

Return(val) ==
    /\ stack' = Tail(stack)
    /\ ret' = val
    /\ status' = IF Len(stack) = 1 THEN "returned" ELSE "running"
    /\ UNCHANGED exc

Raise(type, msg) ==
    /\ stack' = <<>>
    /\ exc' = [type |-> type, msg |-> msg]
    /\ status' = "raised"
    /\ UNCHANGED ret

NoExc == [type |-> "none", msg |-> <<>>]

\* the observations before anything was observed
NoFetch == [args |-> <<>>, requests |-> 0, slept |-> 0,
            state |-> "none", payload |-> <<>>]

NoMemo == [args |-> <<>>, prior |-> FALSE, bodies |-> 0, requests |-> 0,
           done |-> FALSE, same |-> TRUE]

NoRun == [sent |-> {}, before |-> <<>>, cached |-> <<>>, got |-> <<>>,
          lookups |-> <<>>, resumed |-> FALSE, earlier |-> <<>>]

(***************************************************************************)
(* The memoized fetcher: @cache.memoize() twice around _fetch_url.         *)
(***************************************************************************)
\* diskcache's key of a call: the function's name and its arguments
CacheKeyNoCredentials(endpoint_url, params, user, passwd) ==
    <<endpoint_url, params, <<>>, <<>>>>

CacheKey(endpoint_url, params, user, passwd) ==
    <<endpoint_url, params, user, passwd>>

KeyOf(args) == CacheKey(args[1], args[2], args[3], args[4])

Outer == "outer"
Inner == "inner"

EndpointOf(endpoint_url) == endpoint_url[Len(endpoint_url)]

MemoizedFetch(args) == Frame("memoize", "lookup", [level |-> Outer, args |-> args])

\* the wrapper of cache.memoize(): look the key up; on a miss call the
\* wrapped function
MemoizeLookup ==
    /\ At("memoize", "lookup")
    /\ LET a == Top.v.args
           level == Top.v.level
           hit == KeyOf(a) \in DOMAIN cache
       IN /\ IF hit
             THEN Return(cache[KeyOf(a)])
             ELSE Call(IF level = Outer
                       THEN Frame("memoize", "lookup", [level |-> Inner, args |-> a])
                       ELSE Frame("_fetch_url", "loop", [args |-> a, attempt |-> 0]),
                       "store", Top.v)
          /\ lastMemo' = IF level = Outer
                         THEN [args |-> a, prior |-> a \in DOMAIN served,
                               bodies |-> 0, requests |-> 0,
                               done |-> hit,
                               same |-> IF hit /\ a \in DOMAIN served
                                        THEN served[a] = cache[KeyOf(a)]
                                        ELSE TRUE]
                         ELSE lastMemo
          /\ lastFetch' = IF level = Inner /\ ~hit
                          THEN [args |-> a, requests |-> 0, slept |-> 0,
                                state |-> "running", payload |-> <<>>]
                          ELSE lastFetch
          /\ served' = IF level = Outer /\ hit /\ a \notin DOMAIN served
                       THEN served @@ (a :> cache[KeyOf(a)])
                       ELSE served
    /\ UNCHANGED <<cache, gold_key, num_calls, op, net, run, out, ops>>

\* the keys under which the cache holds the very object that a fetch with
\* this key returns: none, since the disk cache keeps a serialized copy of
\* the value and loads a new object at every lookup
CacheAliasesObject(key) == {key}

CacheAliases(key) == {}

StoreNothing(c, key, value) == c

Store(c, key, value) ==
    IF key \in DOMAIN c THEN [c EXCEPT ![key] = value] ELSE c @@ (key :> value)

\* the wrapper of cache.memoize(): the wrapped function returned; store
\* its result under the key and return it
MemoizeStore ==
    /\ At("memoize", "store")
    /\ LET a == Top.v.args
           level == Top.v.level
       IN /\ cache' = Store(cache, KeyOf(a), ret)
          /\ Return(ret)
          /\ lastMemo' = IF level = Outer
                         THEN [lastMemo EXCEPT
                                 !.done = TRUE,
                                 !.same = IF a \in DOMAIN served
                                          THEN served[a] = ret ELSE TRUE]
                         ELSE lastMemo
          /\ served' = IF level = Outer /\ a \notin DOMAIN served
                       THEN served @@ (a :> ret)
                       ELSE served
    /\ UNCHANGED <<gold_key, num_calls, op, net, lastFetch, run, out, ops>>

Backoff(attempt) == Pow(BackoffBase, attempt)

MayRequestUpTo5(attempt) == attempt < MaxAttempts + 1

MayRequest(attempt) == attempt < MaxAttempts

\* one iteration of the while loop of _fetch_url: one requests.get
FetchUrlRequest ==
    /\ At("_fetch_url", "loop")
    /\ MayRequest(Top.v.attempt)
    /\ LET a == Top.v.args
           attempt == Top.v.attempt
       IN \E code \in net.status :
            /\ IF code = 200
               THEN \E payload \in net.payload[EndpointOf(a[1])] :
                      /\ Return(payload)
                      /\ lastFetch' = [lastFetch EXCEPT
                                         !.requests = @ + 1,
                                         !.state = "returned",
                                         !.payload = payload]
               ELSE /\ Goto("loop", [Top.v EXCEPT !.attempt = attempt + 1])
                    /\ lastFetch' = [lastFetch EXCEPT
                                       !.requests = @ + 1,
                                       !.slept = @ + Backoff(attempt)]
            /\ lastMemo' = [lastMemo EXCEPT
                              !.requests = @ + 1,
                              !.bodies = IF attempt = 0 THEN @ + 1 ELSE @]
            /\ run' = [run EXCEPT !.sent = @ \cup {a}]
    /\ UNCHANGED <<cache, gold_key, num_calls, op, net, served, out, ops>>

\* the loop of _fetch_url is left without a 200: raise
FetchUrlRaise ==
    /\ At("_fetch_url", "loop")
    /\ ~MayRequest(Top.v.attempt)
    /\ Raise("FetchError", <<Top.v.args[1], Top.v.attempt>>)
    /\ lastFetch' = [lastFetch EXCEPT !.state = "raised"]
    /\ UNCHANGED <<cache, gold_key, num_calls, op, net, lastMemo, served,
                   run, out, ops>>

\* GoldClient._call
CallStart ==
    /\ At("_call", "start")
    /\ IF gold_key = <<>>
       THEN Raise("TypeError", <<"gold_key">>)
       ELSE Call(MemoizedFetch(<<EndpointUrl(Top.v.endpoint), Top.v.params,
                                 gold_key[1], gold_key[2]>>),
                 "fetched", Top.v)
    /\ UNCHANGED <<cache, gold_key, num_calls, op, net, lastFetch, lastMemo,
                   served, run, out, ops>>

CallFetched ==
    /\ At("_call", "fetched")
    /\ num_calls' = num_calls + 1
    /\ Return(ret)
    /\ run' = [run EXCEPT !.got = Append(@, <<Top.v.endpoint, Top.v.params, ret>>)]
    /\ UNCHANGED <<cache, gold_key, op, net, lastFetch, lastMemo, served,
                   out, ops>>

CallFrame(endpoint, params) ==
    Frame("_call", "start", [endpoint |-> endpoint, params |-> params])

\* GoldClient.clear_cache
ClearCache ==
    /\ ~Running
    /\ cache # <<>>
    /\ cache' = <<>>
    /\ served' = <<>>
    /\ op' = [fn |-> "clear_cache", args |-> <<>>]
    /\ status' = "returned"
    /\ exc' = NoExc
    /\ UNCHANGED <<gold_key, num_calls, stack, ret, net, lastFetch, lastMemo,
                   run, out, ops>>

(***************************************************************************)
(* JSON records of the upstream.  A dict is a record with the set of its   *)
(* keys; reading a key that is not in the set is Python's KeyError.        *)
(***************************************************************************)
\* the keys transform_emp500_nmdc reads from a biosample, in reading order
TransformFields ==
    <<"biosampleGoldId", "description", "biosampleName", "ncbiTaxName",
      "addDate", "dateCollected", "modDate", "depthInMeters",
      "depthInMeters2", "sampleCollectionTemperature", "ecosystem",
      "ecosystemCategory", "ecosystemSubtype", "ecosystemType",
      "geoLocation", "latitude", "longitude", "habitat", "isoCountry",
      "hostName", "sampleBodySite", "nitrateConcentration",
      "salinityConcentration", "envoBroadScale", "envoLocalScale",
      "envoMedium">>

AllFields == Range(TransformFields)

Biosample(id) ==
    [keys |-> AllFields, biosampleGoldId |-> id, projects |-> <<>>]

BiosampleWithout(id, key) ==
    [keys |-> AllFields \ {key},
     biosampleGoldId |-> IF key = "biosampleGoldId" THEN <<>> ELSE id,
     projects |-> <<>>]

Project(id, biosample_id) ==
    [keys |-> {"projectGoldId", "biosampleGoldId"},
     projectGoldId |-> id, biosampleGoldId |-> biosample_id]

Study(id) == [keys |-> {"studyGoldId"}, studyGoldId |-> id, biosamples |-> <<>>]

Has(dict, key) == key \in dict.keys

(***************************************************************************)
(* The relational stitcher.                                                *)
(***************************************************************************)
EXCLUSION_LIST == {}

\* samples_by_id = {sample["biosampleGoldId"]: sample for sample in biosamples}:
\* the index of the sample the dict holds for an id is the last one with it
SamplesByIdFirst(biosamples) ==
    [id \in {biosamples[i].biosampleGoldId : i \in 1..Len(biosamples)} |->
        CHOOSE i \in 1..Len(biosamples) :
            /\ biosamples[i].biosampleGoldId = id
            /\ \A j \in 1..(i - 1) : biosamples[j].biosampleGoldId # id]

SamplesById(biosamples) ==
    [id \in {biosamples[i].biosampleGoldId : i \in 1..Len(biosamples)} |->
        CHOOSE i \in 1..Len(biosamples) :
            /\ biosamples[i].biosampleGoldId = id
            /\ \A j \in (i + 1)..Len(biosamples) : biosamples[j].biosampleGoldId # id]

\* sample["projects"].append(project), after creating the list if absent
AppendProject(sample, project) ==
    [sample EXCEPT !.keys = @ \cup {"projects"},
                   !.projects = Append(@, project)]

PrependProject(sample, project) ==
    [sample EXCEPT !.keys = @ \cup {"projects"},
                   !.projects = <<project>> \o @]

RECURSIVE Weave(_, _, _, _)
\* the loop "for project in projects" from project number n on
Weave(biosamples, samples_by_id, projects, n) ==
    IF n > Len(projects) THEN [ok |-> TRUE, value |-> biosamples]
    ELSE LET project == projects[n] IN
         IF ~Has(project, "biosampleGoldId")
         THEN [ok |-> FALSE, value |-> <<"biosampleGoldId">>]
         ELSE LET sample_id == project.biosampleGoldId IN
         IF sample_id = NoneVal
         THEN Weave(biosamples, samples_by_id, projects, n + 1)
         ELSE IF sample_id \notin DOMAIN samples_by_id
         THEN Weave(biosamples, samples_by_id, projects, n + 1)
         ELSE IF ~Has(project, "projectGoldId")
         THEN [ok |-> FALSE, value |-> <<"projectGoldId">>]
         ELSE LET i == samples_by_id[sample_id] IN
              Weave([biosamples EXCEPT ![i] = AppendProject(@, project)],
                    samples_by_id, projects, n + 1)

\* lines 136-157 of fetch_biosamples_by_study
Stitch(biosamples, projects) ==
    IF \E i \in 1..Len(biosamples) : ~Has(biosamples[i], "biosampleGoldId")
    THEN [ok |-> FALSE, value |-> <<"biosampleGoldId">>]
    ELSE Weave(biosamples, SamplesById(biosamples), projects, 1)

\* GoldClient.fetch_projects_by_study
FetchProjectsStart ==
    /\ At("fetch_projects_by_study", "start")
    /\ LET id == _normalize_id(Top.v.id)
       IN Call(CallFrame("projects", Params("studyGoldId", id)), "fetched", Top.v)
    /\ UNCHANGED <<cache, gold_key, num_calls, op, net, lastFetch, lastMemo,
                   served, run, out, ops>>

FetchProjectsFetched ==
    /\ At("fetch_projects_by_study", "fetched")
    /\ Return(ret)
    /\ UNCHANGED <<cache, gold_key, num_calls, op, net, lastFetch, lastMemo,
                   served, run, out, ops>>

FetchProjectsFrame(id) == Frame("fetch_projects_by_study", "start", [id |-> id])

\* GoldClient.fetch_biosamples_by_study
FetchBiosamplesStart ==
    /\ At("fetch_biosamples_by_study", "start")
    /\ LET id == _normalize_id(Top.v.id)
       IN IF id \in EXCLUSION_LIST
          THEN Return(<<>>)
          ELSE Call(CallFrame("biosamples", Params("studyGoldId", id)),
                    "biosamples", [Top.v EXCEPT !.id = id])
    /\ UNCHANGED <<cache, gold_key, num_calls, op, net, lastFetch, lastMemo,
                   served, run, out, ops>>

FetchBiosamplesFetched ==
    /\ At("fetch_biosamples_by_study", "biosamples")
    /\ IF Top.v.include_project
       THEN Call(FetchProjectsFrame(Top.v.id), "projects",
                 [Top.v EXCEPT !.biosamples = ret])
       ELSE Return(ret)
    /\ UNCHANGED <<cache, gold_key, num_calls, op, net, lastFetch, lastMemo,
                   served, run, out, ops>>

FetchBiosamplesStitch ==
    /\ At("fetch_biosamples_by_study", "projects")
    /\ LET r == Stitch(Top.v.biosamples, ret)
           key == CacheKey(EndpointUrl("biosamples"),
                           Params("studyGoldId", Top.v.id),
                           gold_key[1], gold_key[2])
       IN \* the projects are appended to the sample objects in place, so
          \* every holder of these objects sees them
          IF r.ok
          THEN /\ Return(r.value)
               /\ cache' = [k \in DOMAIN cache |->
                              IF k \in CacheAliases(key)
                              THEN r.value ELSE cache[k]]
          ELSE /\ Raise("KeyError", r.value)
               /\ cache' = cache
    /\ UNCHANGED <<gold_key, num_calls, op, net, lastFetch, lastMemo,
                   served, run, out, ops>>

FetchBiosamplesFrame(id, include_project) ==
    Frame("fetch_biosamples_by_study", "start",
          [id |-> id, include_project |-> include_project, biosamples |-> <<>>])

(***************************************************************************)
(* Studies.                                                                *)
(***************************************************************************)
GsFAKE == <<"G", "s", "F", "A", "K", "E", "-">>

NoStudiesNever(results) == FALSE

\* len(results) == 0
NoStudies(results) == Len(results) = 0

\* study = {"studyGoldId": f"GsFAKE-{id}"}
StubStudy(id) == Study(GsFAKE \o id)

\* study["biosamples"] = ...
WithBiosamples(study, biosamples) ==
    [study EXCEPT !.keys = @ \cup {"biosamples"}, !.biosamples = biosamples]

\* GoldClient.fetch_study
FetchStudyStart ==
    /\ At("fetch_study", "start")
    /\ LET id == _normalize_id(Top.v.id)
       IN Call(CallFrame("studies", Params("studyGoldId", id)),
               "studies", [Top.v EXCEPT !.id = id])
    /\ UNCHANGED <<cache, gold_key, num_calls, op, net, lastFetch, lastMemo,
                   served, run, out, ops>>

FetchStudyFetched ==
    /\ At("fetch_study", "studies")
    /\ IF Len(ret) = 0
       THEN Raise("IndexError", <<"results">>)
       ELSE IF Top.v.include_biosamples
       THEN Call(FetchBiosamplesFrame(Top.v.id, TRUE), "biosamples",
                 [Top.v EXCEPT !.study = ret[1]])
       ELSE Return(ret[1])
    /\ UNCHANGED <<cache, gold_key, num_calls, op, net, lastFetch, lastMemo,
                   served, run, out, ops>>

FetchStudyBiosamples ==
    /\ At("fetch_study", "biosamples")
    /\ Return(WithBiosamples(Top.v.study, ret))
    /\ UNCHANGED <<cache, gold_key, num_calls, op, net, lastFetch, lastMemo,
                   served, run, out, ops>>

FetchStudyFrame(id, include_biosamples) ==
    Frame("fetch_study", "start",
          [id |-> id, include_biosamples |-> include_biosamples,
           study |-> Study(<<>>)])

\* GoldClient.fetch_study_by_biosample_id
FetchStudyByBiosampleStart ==
    /\ At("fetch_study_by_biosample_id", "start")
    /\ LET id == _normalize_id(Top.v.id)
       IN Call(CallFrame("studies", Params("biosampleGoldId", id)),
               "studies", [Top.v EXCEPT !.id = id])
    /\ UNCHANGED <<cache, gold_key, num_calls, op, net, lastFetch, lastMemo,
                   served, run, out, ops>>

FetchStudyByBiosampleFetched ==
    /\ At("fetch_study_by_biosample_id", "studies")
    /\ LET results == ret
           stub == NoStudies(results)
       IN IF ~stub /\ Len(results) = 0
          THEN /\ Raise("IndexError", <<"results">>)
               /\ UNCHANGED run
          ELSE LET study == IF stub THEN StubStudy(Top.v.id) ELSE results[1]
               IN /\ run' = [run EXCEPT !.lookups =
                               Append(@, [id |-> Top.v.id, results |-> results,
                                          study |-> study.studyGoldId])]
                  /\ IF ~Top.v.include_biosamples
                     THEN Return(study)
                     ELSE IF ~Has(study, "studyGoldId")
                     THEN Raise("KeyError", <<"studyGoldId">>)
                     ELSE Call(FetchBiosamplesFrame(study.studyGoldId, TRUE),
                               "biosamples", [Top.v EXCEPT !.study = study])
    /\ UNCHANGED <<cache, gold_key, num_calls, op, net, lastFetch, lastMemo,
                   served, out, ops>>

FetchStudyByBiosampleBiosamples ==
    /\ At("fetch_study_by_biosample_id", "biosamples")
    /\ Return(WithBiosamples(Top.v.study, ret))
    /\ UNCHANGED <<cache, gold_key, num_calls, op, net, lastFetch, lastMemo,
                   served, run, out, ops>>

FetchStudyByBiosampleFrame(id, include_biosamples) ==
    Frame("fetch_study_by_biosample_id", "start",
          [id |-> id, include_biosamples |-> include_biosamples,
           study |-> Study(<<>>)])

(***************************************************************************)
(* The batch orchestrator.                                                 *)
(***************************************************************************)
AlreadyResolvedNever(biosample_to_study, biosample_id) == FALSE

\* biosample_id in biosample_to_study
AlreadyResolved(biosample_to_study, biosample_id) ==
    biosample_id \in DOMAIN biosample_to_study

RECURSIVE Assign(_, _, _, _)
\* the loop "for biosample in study['biosamples']" from biosample number n on
Assign(biosample_to_study, biosamples, study_id, n) ==
    IF n > Len(biosamples) THEN biosample_to_study
    ELSE LET sid == biosamples[n].biosampleGoldId
         IN Assign(IF sid \in DOMAIN biosample_to_study
                   THEN [biosample_to_study EXCEPT ![sid] = study_id]
                   ELSE biosample_to_study @@ (sid :> study_id),
                   biosamples, study_id, n + 1)

\* GoldClient.fetch_studies_by_biosample_ids: the head of the loop over ids
BatchNext ==
    /\ At("fetch_studies_by_biosample_ids", "loop")
    /\ LET v == Top.v
       IN IF v.n > Len(v.ids)
          THEN Return(v.studies)
          ELSE IF AlreadyResolved(v.biosample_to_study, v.ids[v.n])
          THEN Goto("loop", [v EXCEPT !.n = @ + 1])
          ELSE Call(FetchStudyByBiosampleFrame(v.ids[v.n], TRUE), "study", v)
    /\ UNCHANGED <<cache, gold_key, num_calls, op, net, lastFetch, lastMemo,
                   served, run, out, ops>>

\* the study of an id came back: record its biosamples, keep the study
BatchStudy ==
    /\ At("fetch_studies_by_biosample_ids", "study")
    /\ LET v == Top.v
           study == ret
       IN Goto("loop",
               [v EXCEPT !.n = @ + 1,
                         !.biosample_to_study =
                             Assign(@, study.biosamples, study.studyGoldId, 1),
                         !.studies = Append(@, study)])
    /\ UNCHANGED <<cache, gold_key, num_calls, op, net, lastFetch, lastMemo,
                   served, run, out, ops>>

BatchFrame(ids) ==
    Frame("fetch_studies_by_biosample_ids", "loop",
          [ids |-> ids, n |-> 1, biosample_to_study |-> <<>>, studies |-> <<>>])

\* GoldClient.fetch_studies: [self.fetch_study(id, **kwargs) for id in ids]
FetchStudiesNext ==
    /\ At("fetch_studies", "loop")
    /\ LET v == Top.v
       IN IF v.n > Len(v.ids)
          THEN Return(v.studies)
          ELSE Call(FetchStudyFrame(v.ids[v.n], v.include_biosamples), "study", v)
    /\ UNCHANGED <<cache, gold_key, num_calls, op, net, lastFetch, lastMemo,
                   served, run, out, ops>>

FetchStudiesStudy ==
    /\ At("fetch_studies", "study")
    /\ Goto("loop", [Top.v EXCEPT !.n = @ + 1, !.studies = Append(@, ret)])
    /\ UNCHANGED <<cache, gold_key, num_calls, op, net, lastFetch, lastMemo,
                   served, run, out, ops>>

FetchStudiesFrame(ids, include_biosamples) ==
    Frame("fetch_studies", "loop",
          [ids |-> ids, n |-> 1, include_biosamples |-> include_biosamples,
           studies |-> <<>>])

(***************************************************************************)
(* The schema transformer.                                                 *)
(***************************************************************************)
RECURSIVE FirstAbsent(_, _)
\* the first key of TransformFields from number n on that the biosample
\* lacks, or 0: nmdc.Biosample(...) reads them in this order
FirstAbsent(biosample, n) ==
    IF n > Len(TransformFields) THEN 0
    ELSE IF ~Has(biosample, TransformFields[n]) THEN n
    ELSE FirstAbsent(biosample, n + 1)

RECURSIVE TransformFrom(_, _, _)
\* the loop "for biosample in biosamples" from biosample number n on:
\* try: append nmdc.Biosample(...); except: log the biosample's id
TransformFrom(biosamples, biosample_set, n) ==
    IF n > Len(biosamples) THEN [ok |-> TRUE, value |-> biosample_set]
    ELSE LET biosample == biosamples[n] IN
         IF FirstAbsent(biosample, 1) = 0
         THEN TransformFrom(biosamples,
                            Append(biosample_set, biosample.biosampleGoldId),
                            n + 1)
         ELSE IF ~Has(biosample, "biosampleGoldId")
         THEN [ok |-> FALSE, value |-> <<"biosampleGoldId">>]
         ELSE TransformFrom(biosamples, biosample_set, n + 1)

\* GoldClient.transform_emp500_nmdc
TransformStart ==
    /\ At("transform_emp500_nmdc", "start")
    /\ Call(FetchBiosamplesFrame(Top.v.study_id, TRUE), "biosamples", Top.v)
    /\ UNCHANGED <<cache, gold_key, num_calls, op, net, lastFetch, lastMemo,
                   served, run, out, ops>>

TransformBiosamples ==
    /\ At("transform_emp500_nmdc", "biosamples")
    /\ LET r == TransformFrom(ret, <<>>, 1)
       IN IF r.ok
          THEN Return([study_set |-> <<Top.v.study_id>>,
                       biosample_set |-> r.value])
          ELSE Raise("KeyError", r.value)
    /\ UNCHANGED <<cache, gold_key, num_calls, op, net, lastFetch, lastMemo,
                   served, run, out, ops>>

TransformFrame(study_id) ==
    Frame("transform_emp500_nmdc", "start", [study_id |-> study_id])

(***************************************************************************)
(* The fetch-studies command.  A text file is the sequence of its lines, a *)
(* line the sequence of its characters.                                    *)
(***************************************************************************)
Whitespace == {" ", "\n", "\t"}

RECURSIVE LStrip(_)
LStrip(s) == IF s # <<>> /\ Head(s) \in Whitespace THEN LStrip(Tail(s)) ELSE s

RECURSIVE RStrip(_)
RStrip(s) ==
    IF s # <<>> /\ s[Len(s)] \in Whitespace
    THEN RStrip(SubSeq(s, 1, Len(s) - 1)) ELSE s

\* str.strip()
Strip(s) == RStrip(LStrip(s))

RECURSIVE SplitFrom(_, _, _)
\* str.split(sep) for a one-character sep: the fields of s, the one being
\* read in part
SplitFrom(s, sep, part) ==
    IF s = <<>> THEN <<part>>
    ELSE IF Head(s) = sep
         THEN <<part>> \o SplitFrom(Tail(s), sep, <<>>)
         ELSE SplitFrom(Tail(s), sep, Append(part, Head(s)))

Split(s, sep) == SplitFrom(s, sep, <<>>)

\* GoldClient.load_key: [user, passwd] = lines[0].strip().split(":")
LoadKey(lines) ==
    IF Len(lines) = 0 THEN [ok |-> FALSE, type |-> "IndexError", value |-> <<>>]
    ELSE LET parts == Split(Strip(lines[1]), ":")
         IN IF Len(parts) # 2
            THEN [ok |-> FALSE, type |-> "ValueError", value |-> <<>>]
            ELSE [ok |-> TRUE, type |-> "none", value |-> <<parts[1], parts[2]>>]

IsStudyId(id) == StartsWith(id, <<"G", "s">>)
IsBiosampleId(id) == StartsWith(id, <<"G", "b">>)

\* the lines of idfile that start with Gs or Gb, stripped
ReadIds(lines) ==
    LET Wanted(line) == IsStudyId(line) \/ IsBiosampleId(line)
        kept == SelectSeq(lines, Wanted)
    IN [i \in 1..Len(kept) |-> Strip(kept[i])]

MixedNever(study_ids, biosample_ids) == FALSE

\* len(study_ids) > 0 and len(biosample_ids) > 0
Mixed(study_ids, biosample_ids) == Len(study_ids) > 0 /\ Len(biosample_ids) > 0

CmdFrame(pc, a, ids) == Frame("fetch_studies_cmd", pc, [a |-> a, ids |-> ids, n |-> 1])

\* the command up to its first fetch: load the key, clear the cache if
\* asked, read and check the ids, choose the way to fetch
CmdBegin(a) ==
    /\ ~Running
    /\ ops' = ops + 1
    /\ op' = [fn |-> "fetch_studies_cmd", args |-> a]
    /\ lastFetch' = NoFetch
    /\ lastMemo' = NoMemo
    /\ num_calls' = 0
    /\ LET key == LoadKey(a.authentication_file)
           ids == ReadIds(a.idfile)
           study_ids == SelectSeq(ids, IsStudyId)
           biosample_ids == SelectSeq(ids, IsBiosampleId)
           id_type == IF Len(study_ids) > 0 THEN "study" ELSE "biosample"
           cleared == key.ok /\ a.clear_cache
       IN /\ gold_key' = IF key.ok THEN key.value ELSE <<>>
          /\ cache' = IF cleared THEN <<>> ELSE cache
          /\ served' = IF cleared THEN <<>> ELSE served
          /\ run' = [NoRun EXCEPT
                       !.before = cache,
                       !.cached = IF cleared THEN <<>> ELSE cache,
                       !.resumed = (status = "raised" /\ exc.type = "FetchError")]
          /\ IF ~key.ok
             THEN /\ stack' = <<>>
                  /\ status' = "raised"
                  /\ exc' = [type |-> key.type, msg |-> <<"authentication_file">>]
             ELSE IF Len(ids) = 0
             THEN /\ stack' = <<>>
                  /\ status' = "raised"
                  /\ exc' = [type |-> "Exception", msg |-> <<"No ids">>]
             ELSE IF Mixed(study_ids, biosample_ids)
             THEN /\ stack' = <<>>
                  /\ status' = "raised"
                  /\ exc' = [type |-> "Exception", msg |-> <<"Cannot mix">>]
             ELSE /\ status' = "running"
                  /\ exc' = NoExc
                  /\ stack' =
                       IF a.directory # NoneVal /\ id_type = "study"
                       THEN <<CmdFrame("each", a, ids)>>
                       ELSE IF id_type = "study"
                       THEN <<FetchStudiesFrame(ids, a.include_biosamples),
                              CmdFrame("dump", a, ids)>>
                       ELSE <<BatchFrame(ids), CmdFrame("dump", a, ids)>>
    /\ UNCHANGED <<ret, net, out>>

\* for id in ids: study = gc.fetch_study(id, **args)
CmdEach ==
    /\ At("fetch_studies_cmd", "each")
    /\ LET v == Top.v
       IN IF v.n > Len(v.ids)
          THEN Return(NoneVal)
          ELSE Call(FetchStudyFrame(v.ids[v.n], v.a.include_biosamples),
                    "write", v)
    /\ UNCHANGED <<cache, gold_key, num_calls, op, net, lastFetch, lastMemo,
                   served, run, out, ops>>

\* outpath = f"{directory}/{id}.{output_format}"
OutPath(directory, id, output_format) ==
    directory \o <<"/">> \o id \o <<".">> \o output_format

\* the study is written to its own file
CmdWrite ==
    /\ At("fetch_studies_cmd", "write")
    /\ LET v == Top.v
       IN /\ out' = Append(out, [path |-> OutPath(v.a.directory, v.ids[v.n],
                                                  v.a.output_format),
                                 studies |-> <<ret.studyGoldId>>])
          /\ Goto("each", [v EXCEPT !.n = @ + 1])
    /\ UNCHANGED <<cache, gold_key, num_calls, op, net, lastFetch, lastMemo,
                   served, run, ops>>

\* all the studies are written to the output stream
CmdDump ==
    /\ At("fetch_studies_cmd", "dump")
    /\ out' = Append(out, [path |-> Top.v.a.output,
                           studies |-> [i \in 1..Len(ret) |-> ret[i].studyGoldId]])
    /\ Return(NoneVal)
    /\ UNCHANGED <<cache, gold_key, num_calls, op, net, lastFetch, lastMemo,
                   served, run, ops>>

(***************************************************************************)
(* Top-level operations.                                                   *)
(***************************************************************************)

Begin(fn, args, frame) ==
    /\ ~Running
    /\ ops' = ops + 1
    /\ op' = [fn |-> fn, args |-> args]
    /\ stack' = <<frame>>
    /\ status' = "running"
    /\ exc' = NoExc
    /\ run' = [NoRun EXCEPT
                  !.before = cache,
                  !.cached = cache,
                  !.resumed = (status = "raised" /\ exc.type = "FetchError"),
                  !.earlier =
                     IF op.fn = "fetch_biosamples_by_study" /\ status = "returned"
                     THEN Append(run.earlier, [args |-> op.args, ret |-> ret])
                     ELSE run.earlier]
    /\ lastFetch' = NoFetch
    /\ lastMemo' = NoMemo
    /\ UNCHANGED ret

Line(s) == s \o <<"\n">>

KeyFiles == {<<Line(<<"u", ":", "p">>)>>, <<Line(<<"v", ":", "p">>)>>}

\* gc.load_key(path) on a well-formed key file
SetKey ==
    /\ ~Running
    /\ \E file \in KeyFiles :
         /\ LoadKey(file).ok
         /\ gold_key # LoadKey(file).value
         /\ gold_key' = LoadKey(file).value
    /\ UNCHANGED <<cache, num_calls, stack, ret, status, exc, op, net,
                   lastFetch, lastMemo, served, run, out, ops>>

Endpoints == {"studies", "biosamples", "projects"}

\* gc._call(endpoint, params)
StartCall ==
    /\ ops < MaxFetches
    /\ \E endpoint \in {"studies", "biosamples"}, id \in {Gs1} :
         Begin("_call", <<endpoint, id>>,
               CallFrame(endpoint, Params("studyGoldId", id)))
    /\ UNCHANGED <<cache, gold_key, num_calls, net, served, out>>

(***************************************************************************)
(* Initial states.                                                         *)
(***************************************************************************)
StatusCodes == {200, 404, 500}

InitCommon ==
    /\ cache = <<>>
    /\ num_calls = 0
    /\ stack = <<>>
    /\ ret = <<>>
    /\ status = "idle"
    /\ exc = NoExc
    /\ op = [fn |-> "none", args |-> <<>>]
    /\ lastFetch = NoFetch
    /\ lastMemo = NoMemo
    /\ served = <<>>
    /\ run = NoRun
    /\ out = <<>>
    /\ ops = 0

\* the fetcher alone: payloads are opaque lists of study records
InitFetch ==
    /\ InitCommon
    /\ gold_key = <<>>
    /\ net = [status |-> StatusCodes,
              payload |-> [e \in Endpoints |->
                             {<<>>, <<Study(Gs1)>>, <<Study(Gs2)>>}]]

NextFetch ==
    \/ SetKey
    \/ ClearCache
    \/ StartCall
    \/ CallStart
    \/ CallFetched
    \/ MemoizeLookup
    \/ MemoizeStore
    \/ FetchUrlRequest
    \/ FetchUrlRaise

SpecFetch == InitFetch /\ [][NextFetch]_vars

(***************************************************************************)
(* The stitcher: gc.fetch_biosamples_by_study(id, include_project) for one *)
(* study, written with or without the gold: prefix.                        *)
(***************************************************************************)
MaxBiosamples == 2  \* records in a biosamples response
MaxProjects == 2    \* records in a projects response

StartFetchBiosamples ==
    /\ ops < MaxOps
    /\ \E id \in {Gs1, GOLD_PREFIX \o Gs1}, include_project \in BOOLEAN :
         Begin("fetch_biosamples_by_study", <<id, include_project>>,
               FetchBiosamplesFrame(id, include_project))
    /\ UNCHANGED <<cache, gold_key, num_calls, net, served, out>>

LoadedKey == <<<<"u">>, <<"p">>>>

InitStitch ==
    /\ InitCommon
    /\ gold_key = LoadedKey
    /\ net = [status |-> {200, 500},
              payload |->
                [e \in Endpoints |->
                   CASE e = "biosamples" ->
                          SeqsUpTo({Biosample(Gb1), Biosample(Gb2)}, MaxBiosamples)
                     [] e = "projects" ->
                          SeqsUpTo({Project(Gp1, Gb1), Project(Gp2, Gb1),
                                    Project(Gp1, Gb3), Project(Gp2, NoneVal)},
                                   MaxProjects)
                     [] OTHER -> {<<>>}]]

NextStitch ==
    \/ StartFetchBiosamples
    \/ FetchBiosamplesStart
    \/ FetchBiosamplesFetched
    \/ FetchBiosamplesStitch
    \/ FetchProjectsStart
    \/ FetchProjectsFetched
    \/ CallStart
    \/ CallFetched
    \/ MemoizeLookup
    \/ MemoizeStore
    \/ FetchUrlRequest
    \/ FetchUrlRaise

SpecStitch == InitStitch /\ [][NextStitch]_vars

(***************************************************************************)
(* The orchestrator: one gc.fetch_study_by_biosample_id(id, ...) or one    *)
(* gc.fetch_studies_by_biosample_ids(ids) on an empty cache.               *)
(***************************************************************************)
MaxIds == 2         \* biosample ids in the list given to the orchestrator

BatchIds == {Gb1, Gb2, GOLD_PREFIX \o Gb1}

StartFetchStudyByBiosample ==
    /\ ops = 0
    /\ \E id \in {Gb1, GOLD_PREFIX \o Gb1}, include_biosamples \in BOOLEAN :
         Begin("fetch_study_by_biosample_id", <<id, include_biosamples>>,
               FetchStudyByBiosampleFrame(id, include_biosamples))
    /\ UNCHANGED <<cache, gold_key, num_calls, net, served, out>>

StartBatch ==
    /\ ops = 0
    /\ \E ids \in SeqsUpTo(BatchIds, MaxIds) :
         Begin("fetch_studies_by_biosample_ids", <<ids>>, BatchFrame(ids))
    /\ UNCHANGED <<cache, gold_key, num_calls, net, served, out>>

InitBatch ==
    /\ InitCommon
    /\ gold_key = LoadedKey
    /\ net = [status |-> {200, 500},
              payload |->
                [e \in Endpoints |->
                   CASE e = "studies" -> {<<>>, <<Study(Gs1)>>, <<Study(Gs2)>>}
                     [] e = "biosamples" ->
                          {<<>>, <<Biosample(Gb1)>>, <<Biosample(Gb2)>>,
                           <<Biosample(Gb1), Biosample(Gb2)>>}
                     [] OTHER -> {<<>>}]]

NextBatch ==
    \/ StartFetchStudyByBiosample
    \/ StartBatch
    \/ BatchNext
    \/ BatchStudy
    \/ FetchStudyByBiosampleStart
    \/ FetchStudyByBiosampleFetched
    \/ FetchStudyByBiosampleBiosamples
    \/ FetchBiosamplesStart
    \/ FetchBiosamplesFetched
    \/ FetchBiosamplesStitch
    \/ FetchProjectsStart
    \/ FetchProjectsFetched
    \/ CallStart
    \/ CallFetched
    \/ MemoizeLookup
    \/ MemoizeStore
    \/ FetchUrlRequest
    \/ FetchUrlRaise

SpecBatch == InitBatch /\ [][NextBatch]_vars

(***************************************************************************)
(* The transformer: gc.transform_emp500_nmdc(study_id) on biosamples that  *)
(* may lack a key the transformer reads.                                   *)
(***************************************************************************)
StartTransform ==
    /\ ops < MaxOps
    /\ Begin("transform_emp500_nmdc", <<Gs1>>, TransformFrame(Gs1))
    /\ UNCHANGED <<cache, gold_key, num_calls, net, served, out>>

InitTransform ==
    /\ InitCommon
    /\ gold_key = LoadedKey
    /\ net = [status |-> {200, 500},
              payload |->
                [e \in Endpoints |->
                   CASE e = "biosamples" ->
                          SeqsUpTo({Biosample(Gb1),
                                    BiosampleWithout(Gb2, "description"),
                                    BiosampleWithout(Gb2, "envoMedium"),
                                    BiosampleWithout(Gb2, "biosampleGoldId")},
                                   MaxBiosamples)
                     [] e = "projects" -> {<<>>, <<Project(Gp1, Gb1)>>}
                     [] OTHER -> {<<>>}]]

NextTransform ==
    \/ StartTransform
    \/ TransformStart
    \/ TransformBiosamples
    \/ FetchBiosamplesStart
    \/ FetchBiosamplesFetched
    \/ FetchBiosamplesStitch
    \/ FetchProjectsStart
    \/ FetchProjectsFetched
    \/ CallStart
    \/ CallFetched
    \/ MemoizeLookup
    \/ MemoizeStore
    \/ FetchUrlRequest
    \/ FetchUrlRaise

SpecTransform == InitTransform /\ [][NextTransform]_vars

(***************************************************************************)
(* The command: goldapi fetch-studies, run and then run again with the     *)
(* same arguments; the cache directory outlives the runs.                  *)
(***************************************************************************)
IdFiles ==
    {<<>>,
     <<Line(<<"#">>)>>,
     <<Line(Gs1)>>,
     <<Line(Gs1), Line(Gs2)>>,
     <<Line(Gb1), Line(Gb2)>>,
     <<Line(Gs1), Line(Gb1)>>,
     <<Line(Gb1), Line(<<"#">>), Line(Gs1)>>}

AuthFiles ==
    {<<Line(<<"u", ":", "p">>)>>,
     <<Line(<<"u", ":", "p">>), Line(<<"x">>)>>,
     <<>>,
     <<Line(<<"u", "p">>)>>,
     <<Line(<<"u", ":", "p", ":", "q">>)>>,
     <<Line(<<>>), Line(<<"u", ":", "p">>)>>}

\* every choice of options with the one-line key file; the other key files
\* with the default options
CmdArgs ==
    {a \in [idfile : IdFiles,
            authentication_file : AuthFiles,
            clear_cache : BOOLEAN,
            directory : {NoneVal, <<"dir">>},
            output : {<<"stdout">>},
            output_format : {<<"yaml">>, <<"json">>},
            include_biosamples : BOOLEAN] :
        \/ a.authentication_file = <<Line(<<"u", ":", "p">>)>>
        \/ /\ ~a.clear_cache
           /\ a.directory = NoneVal
           /\ a.output_format = <<"yaml">>
           /\ ~a.include_biosamples}

StartCmd ==
    /\ ops = 0
    /\ \E a \in CmdArgs : CmdBegin(a)

RerunCmd ==
    /\ ops > 0
    /\ ops < MaxOps
    /\ CmdBegin(op.args)

InitCmd ==
    /\ InitCommon
    /\ gold_key = <<>>
    /\ net = [status |-> {200, 500},
              payload |->
                [e \in Endpoints |->
                   CASE e = "studies" -> {<<>>, <<Study(Gs1)>>}
                     [] e = "biosamples" ->
                          {<<Biosample(Gb1)>>, <<Biosample(Gb1), Biosample(Gb2)>>}
                     [] OTHER -> {<<>>}]]

NextCmd ==
    \/ StartCmd
    \/ RerunCmd
    \/ CmdEach
    \/ CmdWrite
    \/ CmdDump
    \/ FetchStudiesNext
    \/ FetchStudiesStudy
    \/ FetchStudyStart
    \/ FetchStudyFetched
    \/ FetchStudyBiosamples
    \/ BatchNext
    \/ BatchStudy
    \/ FetchStudyByBiosampleStart
    \/ FetchStudyByBiosampleFetched
    \/ FetchStudyByBiosampleBiosamples
    \/ FetchBiosamplesStart
    \/ FetchBiosamplesFetched
    \/ FetchBiosamplesStitch
    \/ FetchProjectsStart
    \/ FetchProjectsFetched
    \/ CallStart
    \/ CallFetched
    \/ MemoizeLookup
    \/ MemoizeStore
    \/ FetchUrlRequest
    \/ FetchUrlRaise

SpecCmd == InitCmd /\ [][NextCmd]_vars

(***************************************************************************)
(* _normalize_id alone: an identifier is made of up to MaxParts pieces,    *)
(* and the function is applied to it and then to its own result.           *)
(***************************************************************************)
MaxParts == 4

MaxApplications == 2

IdParts == {GOLD_PREFIX, <<"g", "o">>, <<"l", "d", ":">>, Gb1}

RECURSIVE Concat(_)
Concat(parts) ==
    IF parts = <<>> THEN <<>> ELSE Head(parts) \o Concat(Tail(parts))

Identifiers == {Concat(parts) : parts \in SeqsUpTo(IdParts, MaxParts)}

\* gc._normalize_id(id), then gc._normalize_id of what it returned
NormalizeId ==
    /\ op.fn = "_normalize_id"
    /\ Len(out) < MaxApplications
    /\ LET id == IF out = <<>> THEN op.args[1] ELSE out[Len(out)]
       IN /\ ret' = _normalize_id(id)
          /\ out' = Append(out, _normalize_id(id))
    /\ status' = "returned"
    /\ UNCHANGED <<cache, gold_key, num_calls, stack, exc, op, net,
                   lastFetch, lastMemo, served, run, ops>>

InitNormalize ==
    /\ cache = <<>>
    /\ gold_key = <<>>
    /\ num_calls = 0
    /\ stack = <<>>
    /\ ret = <<>>
    /\ status = "idle"
    /\ exc = NoExc
    /\ \E id \in Identifiers : op = [fn |-> "_normalize_id", args |-> <<id>>]
    /\ net = [status |-> {200}, payload |-> [e \in Endpoints |-> {<<>>}]]
    /\ lastFetch = NoFetch
    /\ lastMemo = NoMemo
    /\ served = <<>>
    /\ run = NoRun
    /\ out = <<>>
    /\ ops = 0

NextNormalize == NormalizeId

SpecNormalize == InitNormalize /\ [][NextNormalize]_vars

(***************************************************************************)
(* C1: the retry loop of _fetch_url issues at most 4 requests, one at a    *)
(* time, all but the last answered non-200; it has slept 5^attempt seconds *)
(* after each failed attempt (1, 6, 31, 156 seconds in total after 1, 2,   *)
(* 3, 4 failures); a 200 ends it with the payload of that response as the  *)
(* result of the call; 4 failures end it with the fatal fetch error that   *)
(* names the endpoint URL and the attempt count 4.                         *)
(***************************************************************************)
SleptAfter(failures) ==
    CASE failures = 0 -> 0
      [] failures = 1 -> 1
      [] failures = 2 -> 6
      [] failures = 3 -> 31
      [] OTHER -> 156

C1_RetryLoop ==
    /\ lastFetch.requests <= 4
    /\ lastFetch.state = "running" =>
          lastFetch.slept = SleptAfter(lastFetch.requests)
    /\ lastFetch.state = "returned" =>
          /\ lastFetch.requests >= 1
          /\ lastFetch.slept = SleptAfter(lastFetch.requests - 1)
    /\ (status = "returned" /\ op.fn = "_call" /\ lastMemo.requests > 0) =>
          /\ lastFetch.state = "returned"
          /\ ret = lastFetch.payload
    /\ lastFetch.state = "raised" =>
          /\ lastFetch.requests = 4
          /\ lastFetch.slept = 156
    /\ (status = "raised" /\ exc.type = "FetchError") =>
          /\ lastFetch.state = "raised"
          /\ exc.msg = <<lastFetch.args[1], 4>>

C1_Witness ==
    /\ status = "returned"
    /\ op.fn = "_call"
    /\ lastFetch.state = "returned"
    /\ lastFetch.requests = 4
    /\ lastFetch.slept = 31
    /\ ret = lastFetch.payload
    /\ ret # <<>>

(***************************************************************************)
(* C2: with no clear_cache in between, a memoized fetch sends requests to  *)
(* the network exactly when no earlier fetch with the identical (endpoint  *)
(* URL, params, user, password) tuple has succeeded; the body of           *)
(* _fetch_url then runs once, and never for a tuple that has succeeded;    *)
(* every fetch of a tuple returns the payload its first successful fetch   *)
(* returned.  The same endpoint and params under other credentials is a    *)
(* tuple that has not succeeded, so it does hit the network.               *)
(***************************************************************************)
C2_Memoization ==
    /\ lastMemo.done =>
          /\ (lastMemo.requests = 0) <=> lastMemo.prior
          /\ lastMemo.bodies = (IF lastMemo.prior THEN 0 ELSE 1)
          /\ lastMemo.same
    /\ (status = "returned" /\ op.fn = "_call") =>
          /\ lastMemo.done
          /\ lastMemo.args \in DOMAIN served
          /\ ret = served[lastMemo.args]
    /\ \A a \in DOMAIN served :
          /\ KeyOf(a) \in DOMAIN cache
          /\ cache[KeyOf(a)] = served[a]

\* a second fetch of a tuple is answered without a request while the same
\* endpoint and params have also been fetched under other credentials
C2_Witness ==
    /\ status = "returned"
    /\ op.fn = "_call"
    /\ lastMemo.done
    /\ lastMemo.prior
    /\ lastMemo.requests = 0
    /\ \E a \in DOMAIN served :
          /\ a[1] = lastMemo.args[1]
          /\ a[2] = lastMemo.args[2]
          /\ a[3] # lastMemo.args[3]
          /\ served[a] # served[lastMemo.args]

(***************************************************************************)
(* Observations of a finished fetch_biosamples_by_study.                   *)
(***************************************************************************)
\* the payload _call returned last for an endpoint in this operation
Got(endpoint) ==
    LET I == {i \in 1..Len(run.got) : run.got[i][1] = endpoint}
        last == CHOOSE i \in I : \A j \in I : j <= i
    IN run.got[last][3]

ProjectsFor(projects, id) ==
    LET Matches(p) == p.biosampleGoldId = id IN SelectSeq(projects, Matches)

Stitched ==
    /\ status = "returned"
    /\ op.fn = "fetch_biosamples_by_study"
    /\ op.args[2]

\* biosample number i of the result carries exactly the projects given
WithProjects(fetched, result, projects) ==
    /\ result.biosampleGoldId = fetched.biosampleGoldId
    /\ result.projects = projects
    /\ result.keys = IF projects = <<>> THEN fetched.keys
                     ELSE fetched.keys \cup {"projects"}

LastWithItsId(biosamples, i) ==
    \A j \in (i + 1)..Len(biosamples) :
        biosamples[j].biosampleGoldId # biosamples[i].biosampleGoldId

(***************************************************************************)
(* C3 as stated: after fetch_biosamples_by_study(id, include_project=True) *)
(* the result holds the fetched biosamples, and every one of them carries  *)
(* exactly the fetched projects with its biosampleGoldId, in fetch order   *)
(* (no project list when there is none); unmatched projects are dropped    *)
(* without raising.                                                        *)
(***************************************************************************)
C3_Original ==
    /\ Stitched =>
          LET fetched == Got("biosamples")
              projects == Got("projects")
          IN /\ Len(ret) = Len(fetched)
             /\ \A i \in 1..Len(fetched) :
                   WithProjects(fetched[i], ret[i],
                                ProjectsFor(projects, fetched[i].biosampleGoldId))
    /\ (status = "raised" /\ op.fn = "fetch_biosamples_by_study") =>
          exc.type = "FetchError"

(***************************************************************************)
(* C3 amended: as C3, for every fetched biosample that is the last one of  *)
(* the response with its biosampleGoldId; a biosample followed by another  *)
(* with the same id is returned as fetched, with no project.               *)
(***************************************************************************)
C3_Stitching ==
    /\ Stitched =>
          LET fetched == Got("biosamples")
              projects == Got("projects")
          IN /\ Len(ret) = Len(fetched)
             /\ \A i \in 1..Len(fetched) :
                   WithProjects(fetched[i], ret[i],
                                IF LastWithItsId(fetched, i)
                                THEN ProjectsFor(projects,
                                                 fetched[i].biosampleGoldId)
                                ELSE <<>>)
    /\ (status = "raised" /\ op.fn = "fetch_biosamples_by_study") =>
          exc.type = "FetchError"

\* two biosamples with one id and two projects for it: the second biosample
\* carries both, in fetch order, and the first none
C3_Witness ==
    /\ Stitched
    /\ Len(ret) = 2
    /\ ret[1].biosampleGoldId = ret[2].biosampleGoldId
    /\ Got("projects") = <<Project(Gp2, Gb1), Project(Gp1, Gb1)>>
    /\ ret[1].projects = <<>>
    /\ ret[2].projects = <<Project(Gp2, Gb1), Project(Gp1, Gb1)>>

(***************************************************************************)
(* Observations of the orchestrator.                                       *)
(***************************************************************************)
BatchDone ==
    /\ status = "returned"
    /\ op.fn = "fetch_studies_by_biosample_ids"

LookupDone ==
    /\ status = "returned"
    /\ op.fn = "fetch_study_by_biosample_id"

FakeOf(id) == <<"G", "s", "F", "A", "K", "E", "-">> \o id

BiosampleIdsOf(study) ==
    {study.biosamples[i].biosampleGoldId : i \in 1..Len(study.biosamples)}

(***************************************************************************)
(* C4: when the studies query for a biosample id answers with no study,    *)
(* fetch_study_by_biosample_id makes the stub study GsFAKE-<id> (the id    *)
(* without the gold: prefix) and returns it; the missing study raises      *)
(* nothing (the only error of a lookup or a batch is the fatal fetch       *)
(* error), and a batch keeps the stub in its result and goes on with the   *)
(* next identifier.                                                        *)
(***************************************************************************)
C4_StubStudy ==
    /\ \A i \in 1..Len(run.lookups) :
          run.lookups[i].results = <<>> =>
            /\ run.lookups[i].id \in {Gb1, Gb2}
            /\ run.lookups[i].study = FakeOf(run.lookups[i].id)
    /\ (LookupDone /\ Got("studies") = <<>>) =>
          /\ ret.studyGoldId = <<"G", "s", "F", "A", "K", "E", "-", "G", "b", "1">>
          /\ Has(ret, "biosamples") <=> op.args[2]
    /\ BatchDone =>
          /\ Len(ret) = Len(run.lookups)
          /\ \A i \in 1..Len(ret) : ret[i].studyGoldId = run.lookups[i].study
    /\ (status = "raised"
          /\ op.fn \in {"fetch_study_by_biosample_id",
                        "fetch_studies_by_biosample_ids"}) =>
          exc.type = "FetchError"

\* a batch whose first id has no study: the stub is kept and the second id
\* is resolved after it
C4_Witness ==
    /\ BatchDone
    /\ op.args[1] = <<Gb1, Gb2>>
    /\ Len(ret) = 2
    /\ run.lookups[1].results = <<>>
    /\ ret[1].studyGoldId = FakeOf(Gb1)
    /\ ret[2].studyGoldId = Gs1

(***************************************************************************)
(* C5: for input ids [B1, B2] that are both in the biosample list of the   *)
(* study fetched for B1, fetch_studies_by_biosample_ids calls              *)
(* fetch_study_by_biosample_id once, for B1, fetches nothing for B2 (one   *)
(* studies, one biosamples and one projects call in all) and returns that  *)
(* one study with both biosamples in its list.                             *)
(***************************************************************************)
C5_Deduplication ==
    (/\ BatchDone
     /\ Len(op.args[1]) = 2
     /\ Len(ret) >= 1
     /\ {op.args[1][1], op.args[1][2]} \subseteq BiosampleIdsOf(ret[1])) =>
        /\ Len(ret) = 1
        /\ Len(run.lookups) = 1
        /\ run.lookups[1].id = op.args[1][1]
        /\ Len(run.got) = 3
        /\ {run.got[i][1] : i \in 1..3} = {"studies", "biosamples", "projects"}

C5_Witness ==
    /\ BatchDone
    /\ op.args[1] = <<Gb1, Gb2>>
    /\ Len(ret) = 1
    /\ ret[1].studyGoldId = Gs1
    /\ BiosampleIdsOf(ret[1]) = {Gb1, Gb2}
    /\ Len(run.lookups) = 1

(***************************************************************************)
(* C6 as stated: whatever the input list, no two studies returned by       *)
(* fetch_studies_by_biosample_ids have the same studyGoldId (no study is   *)
(* resolved twice).                                                        *)
(***************************************************************************)
C6_Original ==
    BatchDone =>
      \A i, j \in 1..Len(ret) :
          i # j => ret[i].studyGoldId # ret[j].studyGoldId

(***************************************************************************)
(* C7 as stated, for input ids without prefix whose studies all exist: no  *)
(* biosampleGoldId is in the biosample lists of two returned studies with  *)
(* different studyGoldId.                                                  *)
(***************************************************************************)
C7_Original ==
    (/\ BatchDone
     /\ Range(op.args[1]) \subseteq {Gb1, Gb2}
     /\ \A i \in 1..Len(ret) : ret[i].studyGoldId \in {Gs1, Gs2}) =>
      \A i, j \in 1..Len(ret) :
          ret[i].studyGoldId # ret[j].studyGoldId =>
            BiosampleIdsOf(ret[i]) \cap BiosampleIdsOf(ret[j]) = {}

(***************************************************************************)
(* Observations of the command.                                            *)
(***************************************************************************)
InCmd == op.fn = "fetch_studies_cmd"

HasLine(file, prefix) == \E i \in 1..Len(file) : StartsWith(file[i], prefix)

MixesIds(file) == HasLine(file, <<"G", "s">>) /\ HasLine(file, <<"G", "b">>)

NoIds(file) == ~HasLine(file, <<"G", "s">>) /\ ~HasLine(file, <<"G", "b">>)

Colons(line) == Cardinality({i \in 1..Len(line) : line[i] = ":"})

\* not "user:pass" on the first line
MalformedKey(file) == file = <<>> \/ Colons(file[1]) # 1

\* the memoize key of the request of a _call of this run
GotKey(i) ==
    <<EndpointUrl(run.got[i][1]), run.got[i][2], gold_key[1], gold_key[2]>>

(***************************************************************************)
(* C8: a run of the command whose id file mixes Gs and Gb lines or has no  *)
(* Gs/Gb line, or whose key file is malformed, has ended with an error     *)
(* that is not a fetch error, and no request was sent and no fetch begun.  *)
(***************************************************************************)
C8_ConfigurationErrors ==
    (/\ InCmd
     /\ \/ MixesIds(op.args.idfile)
        \/ NoIds(op.args.idfile)
        \/ MalformedKey(op.args.authentication_file)) =>
        /\ status = "raised"
        /\ exc.type \in {"Exception", "ValueError", "IndexError"}
        /\ run.sent = {}
        /\ run.got = <<>>
        /\ lastMemo = NoMemo
        /\ stack = <<>>

\* a run with a good key and an id file that mixes the two kinds
C8_Witness ==
    /\ InCmd
    /\ ~MalformedKey(op.args.authentication_file)
    /\ MixesIds(op.args.idfile)
    /\ status = "raised"
    /\ exc.msg = <<"Cannot mix">>
    /\ run.sent = {}

(***************************************************************************)
(* C9 as stated: transform_emp500_nmdc never fails on a biosample that     *)
(* lacks a key it reads, whichever key: it returns the document, which     *)
(* holds exactly the fetched biosamples that have every key.               *)
(***************************************************************************)
Complete(biosample) == \A k \in Range(TransformFields) : Has(biosample, k)

C9_Original ==
    op.fn = "transform_emp500_nmdc" =>
      /\ status = "raised" => exc.type = "FetchError"
      /\ status = "returned" =>
            LET kept == SelectSeq(Got("biosamples"), Complete)
            IN ret.biosample_set =
                 [i \in 1..Len(kept) |-> kept[i].biosampleGoldId]

(***************************************************************************)
(* C10 as stated: a run that ends in the fatal fetch error has no cache    *)
(* entry for the failed request and has every entry it started its fetches *)
(* with and every entry of its own successful fetches; and when the same   *)
(* command is run again after it, no request that was in the cache when    *)
(* the command was started is sent to the network.                         *)
(***************************************************************************)
FailedFetchLeavesCache ==
    /\ (status = "raised" /\ exc.type = "FetchError") =>
          KeyOf(lastFetch.args) \notin DOMAIN cache
    /\ \A k \in DOMAIN run.cached :
          k \in DOMAIN cache /\ cache[k] = run.cached[k]
    /\ \A i \in 1..Len(run.got) :
          GotKey(i) \in DOMAIN cache /\ cache[GotKey(i)] = run.got[i][3]

C10_Original ==
    InCmd =>
      /\ FailedFetchLeavesCache
      /\ run.resumed =>
            \A a \in run.sent : KeyOf(a) \notin DOMAIN run.before

(***************************************************************************)
(* C10 amended: as C10, for a command run again without --clear-cache; a   *)
(* command with --clear-cache empties the cache before its first fetch     *)
(* and starts over.                                                        *)
(***************************************************************************)
C10_Resumable ==
    InCmd =>
      /\ FailedFetchLeavesCache
      /\ ~op.args.clear_cache =>
            /\ run.cached = run.before
            /\ \A a \in run.sent : KeyOf(a) \notin DOMAIN run.before
      /\ (op.args.clear_cache /\ gold_key # <<>>) => run.cached = <<>>

\* the run after one that ended in the fatal fetch error: it is done, it
\* was answered from the cache for what had succeeded and sent the rest
C10_Witness ==
    /\ InCmd
    /\ run.resumed
    /\ ~op.args.clear_cache
    /\ status = "returned"
    /\ run.before # <<>>
    /\ run.sent # {}
    /\ \E i \in 1..Len(run.got) : GotKey(i) \in DOMAIN run.before

(***************************************************************************)
(* C11 as stated: a finished run of the command given a directory has      *)
(* written one file per study, each named {directory}/{id}.{format} (the   *)
(* id being the id read from the id file or the id of the study written),  *)
(* whether the ids are study ids or biosample ids; a finished run given no *)
(* directory has written all its studies to the one output stream.         *)
(***************************************************************************)
CmdDone ==
    /\ InCmd
    /\ status = "returned"
    /\ ops = 1

PerStudyFile(w, a) ==
    /\ Len(w.studies) = 1
    /\ \E id \in Range(ReadIds(a.idfile)) \cup {w.studies[1]} :
          w.path = OutPath(a.directory, id, a.output_format)

C11_Original ==
    CmdDone =>
        IF op.args.directory # NoneVal
        THEN /\ Len(out) >= 1
             /\ \A i \in 1..Len(out) : PerStudyFile(out[i], op.args)
        ELSE /\ Len(out) = 1
             /\ out[1].path = op.args.output

(***************************************************************************)
(* C12 as stated: _normalize_id returns an identifier that starts with     *)
(* gold: without exactly that leading prefix, returns any other identifier *)
(* unchanged, and applied to its own result returns it unchanged.          *)
(***************************************************************************)
WithoutLeadingPrefix(id) == SubSeq(id, Len(GOLD_PREFIX) + 1, Len(id))

C12_Original ==
    (op.fn = "_normalize_id" /\ Len(out) >= 1) =>
        /\ StartsWith(op.args[1], GOLD_PREFIX) =>
              out[1] = WithoutLeadingPrefix(op.args[1])
        /\ ~StartsWith(op.args[1], GOLD_PREFIX) => out[1] = op.args[1]
        /\ Len(out) >= 2 => out[2] = out[1]

(***************************************************************************)
(* C13: stitching never changes the cache: every cached response is the    *)
(* payload the upstream first gave for its request. So a call of           *)
(* fetch_biosamples_by_study that returns gives the same result as every   *)
(* earlier call for the same study (with the same include_project) that    *)
(* returned, and no biosample of the result carries a project more often   *)
(* than the projects response lists it.                                    *)
(***************************************************************************)
Count(seq, x) == Cardinality({i \in 1..Len(seq) : seq[i] = x})

SameStudyAgain(e) ==
    /\ _normalize_id(e.args[1]) = _normalize_id(op.args[1])
    /\ e.args[2] = op.args[2]

BiosamplesDone ==
    /\ status = "returned"
    /\ op.fn = "fetch_biosamples_by_study"

C13_NoLeakIntoCache ==
    /\ \A a \in DOMAIN served :
          KeyOf(a) \in DOMAIN cache => cache[KeyOf(a)] = served[a]
    /\ BiosamplesDone =>
          \A n \in 1..Len(run.earlier) :
              SameStudyAgain(run.earlier[n]) => ret = run.earlier[n].ret
    /\ (BiosamplesDone /\ op.args[2]) =>
          \A i \in 1..Len(ret) : \A p \in Range(ret[i].projects) :
              Count(ret[i].projects, p) <= Count(Got("projects"), p)

\* a second call for the study, answered from the cache alone, returns the
\* biosamples with the same projects as the first
C13_Witness ==
    /\ BiosamplesDone
    /\ op.args[2]
    /\ Len(run.earlier) = 1
    /\ SameStudyAgain(run.earlier[1])
    /\ run.sent = {}
    /\ Len(run.got) = 2
    /\ ret = run.earlier[1].ret
    /\ \E i \in 1..Len(ret) : ret[i].projects = <<Project(Gp1, Gb1)>>

====
